---- MODULE Spec2Model ----
(***************************************************************************)
(* The zbus backend of notify-rust (src/xdg/zbus_rs.rs, src/xdg/bus.rs):   *)
(* bus selection by the portal probe, the two wire encodings of a send,    *)
(* the portal identifier counter, the notification handle and the          *)
(* action/close signal listener.                                           *)
(*                                                                         *)
(*   Spec        one application thread: connect-and-send, updates, close  *)
(*   SpecPortal  concurrent callers of the portal branch of a send         *)
(*   SpecListen  wait_for_action_signal over a stream of bus messages      *)
(***************************************************************************)
EXTENDS Integers, Sequences, FiniteSets, TLC

\* ------------------------------------------------------------------ bounds
NumCallers == 2     \* concurrent callers of the portal branch (SpecPortal)
MaxSends   == 2     \* sends per caller (SpecPortal)
MaxUpdates == 2     \* update_fallible calls on one handle (Spec)
MaxStream  == 3     \* messages the signal stream yields (SpecListen)
MaxPath    == 3     \* characters of a drawn custom path (SpecBus)
MaxHints   == 3     \* hints of a notification (SpecDict)
MaxEmit    == 3     \* signals the server emits after a send (SpecWait)

\* --------------------------------------------------------------------- u32
\* A u32 is held as its 32 bits read in two's complement: 0 .. 2^31-1 are
\* themselves, and -2^31 .. -1 are 2^31 .. 2^32-1 (so -1 is u32::MAX).
I32_MAX == 2147483647
I32_MIN == (-I32_MAX) - 1

\* u32 wrapping increment (AtomicU32::fetch_add wraps around on overflow).
WrappingAdd1(x) == IF x = I32_MAX THEN I32_MIN ELSE x + 1

RECURSIVE WrappingAdd(_, _)
WrappingAdd(x, n) == IF n = 0 THEN x ELSE WrappingAdd(WrappingAdd1(x), n - 1)

\* a < b as unsigned 32-bit values.
U32Less(a, b) == IF (a >= 0) = (b >= 0) THEN a < b ELSE a >= 0

\* ------------------------------------------------------------------- buses
\* xdg::NOTIFICATION_DEFAULT_BUS and xdg::NOTIFICATION_PORTAL_BUS are imported
\* (zbus_rs.rs:9, bus.rs:1); the code only compares bus names, so all that
\* matters of the three names here is that they differ.
NOTIFICATION_DEFAULT_BUS == "org.freedesktop.Notifications"
NOTIFICATION_PORTAL_BUS  == "org.freedesktop.portal.Desktop"
CUSTOM_BUS               == "de.hoodie.Notification.test.bus"

Buses == {NOTIFICATION_DEFAULT_BUS, NOTIFICATION_PORTAL_BUS, CUSTOM_BUS}

\* ---------------------------------------------------------------- variables
VARIABLES
    APP_ID,      \* static APP_ID: AtomicU32 (zbus_rs.rs:160)
    appId0,      \* the value APP_ID had in the initial state
    allocs,      \* the identifiers fetch_add has handed out, in order
    \* ---- SpecPortal: callers of send_notification_via_connection_at_bus
    cpc,         \* caller -> "idle" | "call" (awaiting AddNotification)
    carg,        \* caller -> the id argument of its current send
    cid,         \* caller -> the local `id` of the portal branch
    cret,        \* caller -> what its last send returned
    csent,       \* caller -> sends started
    \* ---- Spec: one thread and its handle
    portalProp,  \* what a read of the portal's version property gives now
    hpc,         \* "start" | "probe" | "enter" | "live" | "closed" | "failed"
    op,          \* the operation in progress
    notif,       \* the caller's notification: [id, bus]
    argId,       \* the id argument of the send in progress
    bus,         \* the bus argument of the send in progress
    version,     \* the Result of get_portal_version_via_connection
    handle,      \* ZbusNotificationHandle: [id, bus] (bus = notification.bus)
    ret,         \* the Result of the last operation: "none" | "Ok" | "Err"
    updates,     \* update_fallible calls made
    wire,        \* the requests issued on the connection, in order
    \* ---- SpecListen: wait_for_action_signal
    lpc,         \* "Subscribed" | "Listening" | "Done" | "Panicked"
    target,      \* the id argument
    stream,      \* the messages try_next yields, in order
    ending,      \* what try_next gives after them
    pos,         \* messages consumed
    calls,       \* the responses handler.call was given, in order
    \* ---- SpecBus: NotificationBus::custom
    bpc,         \* "call" | "returned"
    custom_path, \* the argument, a sequence of characters
    bus_name,    \* the Option<Self> it returned
    \* ---- SpecDict: the portal branch building its dictionary
    epc,         \* "enter" | "call" (at call_method) | "idle"
    notification, \* [icon, hints]: hints in the order get_hints() yields them
    files,       \* the paths fs::read can read now
    dict,        \* the "priority" and "icon" entries
    \* ---- SpecWait: a handle, the server's signals and wait_for_action
    wpc,         \* "sent" | "rule1" | "await" | "body" | "done" | "idle"
    wid,         \* the handle's identifier
    rules,       \* the members the connection has a match rule for
    queue,       \* the messages queued in the loop's current MessageStream
    cur,         \* the message the loop body is handling
    emitted,     \* the signals the server has emitted since the send
    received,    \* the messages the connection was given while Listening
    examined,    \* the messages the loop body was entered with
    wcalls       \* the responses handler.call was given

counterVars == <<APP_ID, appId0, allocs>>
portalVars  == <<cpc, carg, cid, cret, csent>>
handleVars  == <<portalProp, hpc, op, notif, argId, bus, version, handle, ret,
                 updates, wire>>
listenVars  == <<lpc, target, stream, ending, pos, calls>>
busVars     == <<bpc, custom_path, bus_name>>
dictVars    == <<epc, notification, files, dict>>
waitVars    == <<wpc, wid, rules, queue, cur, emitted, received, examined,
                 wcalls>>
extraVars   == <<busVars, dictVars, waitVars>>
vars        == <<counterVars, portalVars, handleVars, listenVars, extraVars>>

\* ---------------------------------------------- the portal identifier counter
APP_ID_INIT == 1

\* The counter's first value, and its value after 2^32 - 3 self-allocations
\* (0xFFFFFFFE), which no run of single steps gets to within the bounds.
CounterStarts == {APP_ID_INIT, (-1) - 1}

\* AtomicU32::fetch_add(1, Relaxed): one atomic read-modify-write.
fetch_add_lost(counter) == [prev |-> counter, next |-> counter]

fetch_add(counter) == [prev |-> counter, next |-> WrappingAdd1(counter)]

\* zbus_rs.rs:162-166: the portal branch's `id`.
PortalId(id, counter) == IF id = 0 THEN fetch_add(counter).prev ELSE id

\* The counter as it would be if every portal send took a number.
PortalCounterAlways(id, counter) == fetch_add(counter).next

PortalCounter(id, counter) == IF id = 0 THEN fetch_add(counter).next ELSE counter

PortalAllocs(id, counter, log) ==
    IF id = 0 THEN Append(log, fetch_add(counter).prev) ELSE log

\* ------------------------------------------------------------- SpecPortal
Callers == 1 .. NumCallers

SuppliedIds == {0, 2}

\* Result<u32>
Ok(x) == [ok |-> TRUE, v |-> x]

Err == [ok |-> FALSE, v |-> 0]

\* Option<u32>
Some(x) == [some |-> TRUE, val |-> x]

None == [some |-> FALSE, val |-> 0]

\* no send has returned yet
NoResult == [ok |-> FALSE, v |-> 1]

InitCounter ==
    /\ APP_ID \in CounterStarts
    /\ appId0 = APP_ID
    /\ allocs = <<>>

InitPortalIdle ==
    /\ cpc = [c \in Callers |-> "idle"]
    /\ carg = [c \in Callers |-> 0]
    /\ cid = [c \in Callers |-> 0]
    /\ cret = [c \in Callers |-> NoResult]
    /\ csent = [c \in Callers |-> 0]

InitHandleIdle ==
    /\ portalProp = Err
    /\ hpc = "start"
    /\ op = "none"
    /\ notif = [id |-> None, bus |-> NOTIFICATION_DEFAULT_BUS]
    /\ argId = 0
    /\ bus = NOTIFICATION_DEFAULT_BUS
    /\ version = Err
    /\ handle = [id |-> 0, bus |-> NOTIFICATION_DEFAULT_BUS]
    /\ ret = "none"
    /\ updates = 0
    /\ wire = <<>>

InitListenIdle ==
    /\ lpc = "Done"
    /\ target = 0
    /\ stream = <<>>
    /\ ending = "end"
    /\ pos = 0
    /\ calls = <<>>

\* Option<NotificationBus>, the name as a sequence of characters
SomeName(n) == [some |-> TRUE, val |-> n]

NoName == [some |-> FALSE, val |-> <<>>]

InitBusIdle ==
    /\ bpc = "returned"
    /\ custom_path = <<>>
    /\ bus_name = NoName

NoDict == [priority |-> "", icon |-> [form |-> "", name |-> "", data |-> ""]]

InitDictIdle ==
    /\ epc = "idle"
    /\ notification = [icon |-> "", hints |-> <<>>]
    /\ files = {}
    /\ dict = NoDict

NoMessage ==
    [type |-> "", member |-> "", sig |-> "", nid |-> 0, action |-> "",
     reason |-> 0]

InitWaitIdle ==
    /\ wpc = "idle"
    /\ wid = 0
    /\ rules = {}
    /\ queue = <<>>
    /\ cur = NoMessage
    /\ emitted = <<>>
    /\ received = <<>>
    /\ examined = <<>>
    /\ wcalls = <<>>

InitExtraIdle == InitBusIdle /\ InitDictIdle /\ InitWaitIdle

\* zbus_rs.rs:159-200: a caller enters the portal branch with id argument
\* `id`; the branch takes its identifier and builds the payload.
PortalEnter(c, id) ==
    /\ cpc[c] = "idle"
    /\ csent[c] < MaxSends
    /\ carg' = [carg EXCEPT ![c] = id]
    /\ cid' = [cid EXCEPT ![c] = PortalId(id, APP_ID)]
    /\ APP_ID' = PortalCounter(id, APP_ID)
    /\ allocs' = PortalAllocs(id, APP_ID, allocs)
    /\ csent' = [csent EXCEPT ![c] = @ + 1]
    /\ cpc' = [cpc EXCEPT ![c] = "call"]
    /\ UNCHANGED <<appId0, cret, handleVars, listenVars, extraVars>>

\* zbus_rs.rs:202-214: AddNotification returns; `?` gives the error back,
\* otherwise the send is Ok(id).
PortalReturn(c, ok) ==
    /\ cpc[c] = "call"
    /\ cret' = [cret EXCEPT ![c] = IF ok THEN Ok(cid[c]) ELSE Err]
    /\ cpc' = [cpc EXCEPT ![c] = "idle"]
    /\ UNCHANGED <<counterVars, carg, cid, csent, handleVars, listenVars, extraVars>>

InitPortal ==
    /\ InitCounter /\ InitPortalIdle /\ InitHandleIdle /\ InitListenIdle
    /\ InitExtraIdle

NextPortal ==
    \/ \E c \in Callers, id \in SuppliedIds : PortalEnter(c, id)
    \/ \E c \in Callers, ok \in BOOLEAN : PortalReturn(c, ok)

SpecPortal == InitPortal /\ [][NextPortal]_vars

\* C1: the identifiers the counter hands out to portal sends are strictly
\* increasing as unsigned 32-bit values, the first one of a process being 1.
C1_MonotonicCounter ==
    /\ \A i, j \in 1 .. Len(allocs) : i < j => U32Less(allocs[i], allocs[j])
    /\ (appId0 = APP_ID_INIT /\ allocs # <<>>) => allocs[1] = 1

\* C2: under every interleaving the self-allocated identifiers are pairwise
\* distinct, concurrent callers hold distinct ones, and no increment is lost:
\* after n allocations the counter is its initial value plus n (in u32).
C2_ConcurrentAllocation ==
    /\ \A i, j \in 1 .. Len(allocs) : i # j => allocs[i] # allocs[j]
    /\ \A c, d \in Callers :
          (c # d /\ cpc[c] = "call" /\ cpc[d] = "call"
             /\ carg[c] = 0 /\ carg[d] = 0) => cid[c] # cid[d]
    /\ APP_ID = WrappingAdd(appId0, Len(allocs))

C2_Witness ==
    /\ Len(allocs) >= 3
    /\ \E c, d \in Callers :
          /\ c # d
          /\ cpc[c] = "call" /\ cpc[d] = "call"
          /\ carg[c] = 0 /\ carg[d] = 0

\* ------------------------------------------------------------------- Spec
\* Result<u32> of the version property read: Err, Ok(0), Ok(1), Ok(2).
ProbeResults == {Err} \cup {Ok(n) : n \in 0 .. 2}

\* notification.bus: the default bus, or a custom one
NotifBuses == {NOTIFICATION_DEFAULT_BUS, CUSTOM_BUS}

\* notification.id: Option<u32>
NotifIds == {None, Some(5)}

\* the identifiers a Notify reply carries
ReplyIds == {5, 6}

unwrap_or_0(x) == IF x.some THEN x.val ELSE 0

\* .is_ok_and(|version| version > 0)
is_ok_and_positive_or_zero(r) == r.ok /\ r.v >= 0

is_ok_and_positive(r) == r.ok /\ r.v > 0

\* zbus_rs.rs:139-143 and 245-249: the bus an unforced send selects.
ProbedBusOfHandle(r) ==
    IF hpc = "probe" /\ op = "update" THEN handle.bus
    ELSE IF r.ok /\ r.v > 0 THEN NOTIFICATION_PORTAL_BUS
    ELSE NOTIFICATION_DEFAULT_BUS

ProbedBus(r) ==
    IF is_ok_and_positive(r) THEN NOTIFICATION_PORTAL_BUS
    ELSE NOTIFICATION_DEFAULT_BUS

\* zbus_rs.rs:214 and 236: what a successful send returns.
SendResultKeepsId(b, id, reply) ==
    IF b = NOTIFICATION_PORTAL_BUS THEN id
    ELSE IF id # 0 THEN id ELSE reply

SendResult(b, id, reply) ==
    IF b = NOTIFICATION_PORTAL_BUS THEN id ELSE reply

\* u32::to_string (zbus_rs.rs:207): the decimal digits, most significant
\* first. A bit pattern below zero stands for 2^32 + x = 10 * 429496729 + 6 + x.
DigitChars == <<"0", "1", "2", "3", "4", "5", "6", "7", "8", "9">>

RECURSIVE nat_to_string(_)
nat_to_string(n) ==
    IF n < 10 THEN <<DigitChars[n + 1]>>
    ELSE Append(nat_to_string(n \div 10), DigitChars[(n % 10) + 1])

to_string(x) ==
    IF x >= 0 THEN nat_to_string(x)
    ELSE Append(nat_to_string(429496729 + ((x + 6) \div 10)),
                DigitChars[((x + 6) % 10) + 1])

\* One request issued on the connection and how it ended; `key` is the
\* string key of an AddNotification and empty for every other method.
Request(method, dest, id, ok, reply) ==
    [method |-> method, dest |-> dest, id |-> id, ok |-> ok, reply |-> reply,
     key |-> <<>>]

\* zbus_rs.rs:202-212: the portal call carries (id.to_string(), dict).
AddNotification(dest, id, ok) ==
    [Request("AddNotification", dest, id, ok, 0) EXCEPT !.key = to_string(id)]

\* The branch as it would be if it followed the portal's availability.
is_portal_bus_probed(b) == is_ok_and_positive(portalProp)

\* zbus_rs.rs:159: bus.as_str() == xdg::NOTIFICATION_PORTAL_BUS
is_portal_bus(b) == b = NOTIFICATION_PORTAL_BUS

\* The handle as it would be if update stored unwrap_or(0) of the result.
HandleAfterSendEager(ok, result) ==
    IF op = "update" THEN [handle EXCEPT !.id = IF ok THEN result ELSE 0]
    ELSE IF ~ok THEN handle
    ELSE IF op = "connect" THEN [id |-> result, bus |-> bus]
    ELSE [id |-> result, bus |-> notif.bus]

\* zbus_rs.rs:120-127, 254-259, 269-274: the handle the caller has after the
\* send returned; `?` leaves before any field is written.
HandleAfterSend(ok, result) ==
    IF ~ok THEN handle
    ELSE IF op = "connect" THEN [id |-> result, bus |-> bus]
    ELSE IF op = "connect_at_bus" THEN [id |-> result, bus |-> notif.bus]
    ELSE [handle EXCEPT !.id = result]

Init ==
    /\ InitCounter /\ InitPortalIdle /\ InitListenIdle /\ InitExtraIdle
    /\ portalProp \in ProbeResults
    /\ hpc = "start"
    /\ op = "none"
    /\ notif = [id |-> None, bus |-> NOTIFICATION_DEFAULT_BUS]
    /\ argId = 0
    /\ bus = NOTIFICATION_DEFAULT_BUS
    /\ version = Err
    /\ handle = [id |-> 0, bus |-> NOTIFICATION_DEFAULT_BUS]
    /\ ret = "none"
    /\ updates = 0
    /\ wire = <<>>

\* zbus_rs.rs:243 and 266: zbus::Connection::session().await? fails.
session_fails ==
    /\ hpc = "start"
    /\ hpc' = "failed"
    /\ ret' = "Err"
    /\ UNCHANGED <<counterVars, portalVars, listenVars, extraVars, portalProp, op, notif,
                   argId, bus, version, handle, updates, wire>>

\* zbus_rs.rs:240-244: connect_and_send_notification up to the probe.
connect_and_send_notification(nid, nbus) ==
    /\ hpc = "start"
    /\ notif' = [id |-> nid, bus |-> nbus]
    /\ op' = "connect"
    /\ argId' = unwrap_or_0(nid)
    /\ hpc' = "probe"
    /\ UNCHANGED <<counterVars, portalVars, listenVars, extraVars, portalProp, bus,
                   version, handle, ret, updates, wire>>

\* zbus_rs.rs:262-268: connect_and_send_notification_at_bus up to the send.
connect_and_send_notification_at_bus(nid, nbus, b) ==
    /\ hpc = "start"
    /\ notif' = [id |-> nid, bus |-> nbus]
    /\ op' = "connect_at_bus"
    /\ argId' = unwrap_or_0(nid)
    /\ bus' = b
    /\ hpc' = "enter"
    /\ UNCHANGED <<counterVars, portalVars, listenVars, extraVars, portalProp, version,
                   handle, ret, updates, wire>>

\* zbus_rs.rs:120-125: update_fallible calls send_notification_via_connection
\* with the handle's notification, id and connection.
update_fallible ==
    /\ hpc = "live"
    /\ updates < MaxUpdates
    /\ updates' = updates + 1
    /\ op' = "update"
    /\ argId' = handle.id
    /\ hpc' = "probe"
    /\ UNCHANGED <<counterVars, portalVars, listenVars, extraVars, portalProp, notif, bus,
                   version, handle, ret, wire>>

\* zbus_rs.rs:297-306 with 139-143 / 245-249: the version property is read
\* and the bus selected from the Result; a failed read is no error of the send.
get_portal_version_via_connection ==
    /\ hpc = "probe"
    /\ version' = portalProp
    /\ bus' = ProbedBus(portalProp)
    /\ wire' = Append(wire, Request("Get:version", NOTIFICATION_PORTAL_BUS, 0,
                                    portalProp.ok, portalProp.v))
    /\ hpc' = "enter"
    /\ UNCHANGED <<counterVars, portalVars, listenVars, extraVars, portalProp, op, notif,
                   argId, handle, ret, updates>>

\* zbus_rs.rs:153-238, and what its caller does with the Result
\* (250-259, 268-274, 121-126). out is how the method call ends: Err, or
\* Ok with the u32 of the reply body (which the portal branch drops).
send_notification_via_connection_at_bus(out) ==
    LET portal == is_portal_bus(bus)
        id     == IF portal THEN PortalId(argId, APP_ID) ELSE argId
        ok     == out.ok
        result == SendResult(bus, id, out.v)
    IN  /\ hpc = "enter"
        /\ APP_ID' = IF portal THEN PortalCounter(argId, APP_ID) ELSE APP_ID
        /\ allocs' = IF portal THEN PortalAllocs(argId, APP_ID, allocs) ELSE allocs
        /\ wire' = Append(wire,
                     IF portal THEN AddNotification(bus, id, ok)
                     ELSE Request("Notify", bus, id, ok,
                                  IF ok THEN out.v ELSE 0))
        /\ ret' = IF ok THEN "Ok" ELSE "Err"
        /\ handle' = HandleAfterSend(ok, result)
        /\ hpc' = IF ok \/ op = "update" THEN "live" ELSE "failed"
        /\ UNCHANGED <<appId0, portalVars, listenVars, extraVars, portalProp, op, notif,
                       argId, bus, version, updates>>

\* zbus_rs.rs:92-103: close_fallible consumes the handle.
close_fallible(ok) ==
    /\ hpc = "live"
    /\ wire' = Append(wire, Request("CloseNotification", handle.bus, handle.id,
                                    ok, 0))
    /\ ret' = IF ok THEN "Ok" ELSE "Err"
    /\ hpc' = "closed"
    /\ UNCHANGED <<counterVars, portalVars, listenVars, extraVars, portalProp, op, notif,
                   argId, bus, version, handle, updates>>

\* The portal service appears, disappears or changes its version.
PortalChanges(r) ==
    /\ r # portalProp
    /\ hpc \in {"start", "probe", "enter", "live"}
    /\ portalProp' = r
    /\ UNCHANGED <<counterVars, portalVars, listenVars, extraVars, hpc, op, notif, argId,
                   bus, version, handle, ret, updates, wire>>

Next ==
    \/ session_fails
    \/ \E nid \in NotifIds, nbus \in NotifBuses :
          connect_and_send_notification(nid, nbus)
    \/ \E nid \in NotifIds, nbus \in NotifBuses, b \in Buses :
          connect_and_send_notification_at_bus(nid, nbus, b)
    \/ update_fallible
    \/ get_portal_version_via_connection
    \/ \E out \in {Err} \cup {Ok(n) : n \in ReplyIds} : send_notification_via_connection_at_bus(out)
    \/ \E ok \in BOOLEAN : close_fallible(ok)
    \/ \E r \in ProbeResults : PortalChanges(r)

Spec == Init /\ [][Next]_vars

\* ---- the requests of the wire log
IsSend(r) == r.method \in {"Notify", "AddNotification"}

IsProbe(r) == r.method = "Get:version"

SendIndices == {i \in 1 .. Len(wire) : IsSend(wire[i])}

OkSendIndices == {i \in SendIndices : wire[i].ok}

MinOf(S) == CHOOSE i \in S : \A j \in S : i <= j

MaxOf(S) == CHOOSE i \in S : \A j \in S : i >= j

LastRequest == wire[Len(wire)]

\* C3: a legacy send (connect-and-send or update) with a nonzero identifier
\* whose Notify reply carries another identifier leaves the echoed
\* identifier, not the supplied one, in the handle.
C3_LegacyEcho ==
    (/\ hpc = "live"
     /\ ret = "Ok"
     /\ wire # <<>>
     /\ LastRequest.method = "Notify"
     /\ LastRequest.ok
     /\ LastRequest.id # 0
     /\ LastRequest.reply # LastRequest.id)
    => (handle.id = LastRequest.reply /\ handle.id # LastRequest.id)

C3_Witness ==
    /\ hpc = "live"
    /\ ret = "Ok"
    /\ op = "update"
    /\ wire # <<>>
    /\ LastRequest.method = "Notify"
    /\ LastRequest.ok
    /\ LastRequest.id = 5
    /\ LastRequest.reply = 6
    /\ \E i \in SendIndices : i < Len(wire) /\ wire[i].id = 5 /\ wire[i].reply = 6

\* C4: an unforced send goes to the portal bus exactly when the version read
\* of that send gave Ok(v) with v > 0, and to the default bus otherwise; an
\* operation that returned an error did so for a request other than the probe.
C4_ProbeFallback ==
    /\ (hpc = "enter" /\ op \in {"connect", "update"}) =>
          /\ (bus = NOTIFICATION_PORTAL_BUS) <=> (version.ok /\ version.v > 0)
          /\ (~version.ok \/ version.v = 0) => bus = NOTIFICATION_DEFAULT_BUS
    /\ (hpc \in {"live", "closed", "failed"} /\ ret = "Err" /\ wire # <<>>) =>
          (~IsProbe(LastRequest) /\ ~LastRequest.ok)
    /\ \A i \in SendIndices :
          (i > 1 /\ IsProbe(wire[i - 1]) /\ ~wire[i - 1].ok) =>
              wire[i].dest = NOTIFICATION_DEFAULT_BUS

C4_Witness ==
    /\ hpc = "live"
    /\ ret = "Ok"
    /\ Len(wire) = 2
    /\ IsProbe(wire[1]) /\ ~wire[1].ok
    /\ wire[2].method = "Notify" /\ wire[2].ok
    /\ wire[2].dest = NOTIFICATION_DEFAULT_BUS

\* C5: every unforced send reaches its dispatch through a probe of its own,
\* and the bus it is given is the one the portal's state at that probe
\* selects, whatever earlier sends found.
C5_FreshProbe ==
    [][(hpc' = "enter" /\ hpc # "enter" /\ op' \in {"connect", "update"}) =>
          /\ hpc = "probe"
          /\ version' = portalProp
          /\ bus' = (IF portalProp.ok /\ portalProp.v > 0
                       THEN NOTIFICATION_PORTAL_BUS
                       ELSE NOTIFICATION_DEFAULT_BUS)]_vars

C5_Witness ==
    \E i, j \in SendIndices :
        /\ 1 < i /\ i < j
        /\ IsProbe(wire[i - 1]) /\ IsProbe(wire[j - 1])
        /\ wire[i - 1].ok /\ wire[i - 1].reply > 0 /\ ~wire[j - 1].ok
        /\ wire[i].ok /\ wire[j].ok
        /\ wire[i].dest = NOTIFICATION_PORTAL_BUS
        /\ wire[j].dest = NOTIFICATION_DEFAULT_BUS

\* C6: the bus of the handle's notification snapshot is the bus the most
\* recent successful send of the handle went to, and a handle created with a
\* forced bus (its first request is the send, not a probe) is never probed.
C6_SnapshotBus ==
    hpc = "live" =>
        /\ handle.bus = wire[MaxOf(OkSendIndices)].dest
        /\ ~IsProbe(wire[1]) => \A i \in 1 .. Len(wire) : ~IsProbe(wire[i])

\* C7: close_fallible issues exactly one CloseNotification, to the bus that
\* served the send which created the handle, with the handle's identifier.
C7_CloseSameBus ==
    hpc = "closed" =>
        /\ Cardinality({i \in 1 .. Len(wire) :
                           wire[i].method = "CloseNotification"}) = 1
        /\ LastRequest.method = "CloseNotification"
        /\ LastRequest.id = handle.id
        /\ LastRequest.dest = wire[MinOf(SendIndices)].dest

\* -------------------------------------------------------------- SpecListen
\* A bus message: its type, its member, the signature of its body, and the
\* body's fields: after signature "us" a u32 and an action name, after "uu"
\* a u32 and a reason code, after any other signature neither.
Message(type, member, sig, nid, action, reason) ==
    [type |-> type, member |-> member, sig |-> sig, nid |-> nid,
     action |-> action, reason |-> reason]

ActionBodies == {<<7, "default">>, <<9, "default">>, <<9, "reply">>}

ClosedBodies == {<<7, 2>>, <<9, 2>>, <<9, 42>>}

SignalsOf(member) ==
    {Message("Signal", member, "us", b[1], b[2], 0) : b \in ActionBodies}
        \cup {Message("Signal", member, "uu", b[1], "", b[2]) : b \in ClosedBodies}
        \cup {Message("Signal", member, "s", 0, "", 0)}

Messages ==
    SignalsOf("ActionInvoked") \cup SignalsOf("NotificationClosed")
        \cup {Message("Signal", "Other", "us", 9, "default", 0),
              Message("Signal", "Other", "uu", 9, "", 2),
              Message("MethodCall", "ActionInvoked", "us", 9, "default", 0),
              Message("MethodReturn", "", "s", 0, "", 0)}

Streams == UNION {[1 .. n -> Messages] : n \in 0 .. MaxStream}

Targets == {9}

\* CloseReason::from(u32): 1, 2, 3 are named, any other code is kept.
CloseReasonFrom(code) ==
    IF code = 1 THEN [reason |-> "Expired", code |-> 0]
    ELSE IF code = 2 THEN [reason |-> "Dismissed", code |-> 0]
    ELSE IF code = 3 THEN [reason |-> "CloseAction", code |-> 0]
    ELSE [reason |-> "Other", code |-> code]

NoReason == [reason |-> "", code |-> 0]

\* ActionResponse::Custom(&action), ActionResponse::Closed(reason)
Custom(action) == [kind |-> "Custom", action |-> action, reason |-> NoReason]

Closed(reason) == [kind |-> "Closed", action |-> "", reason |-> reason]

\* zbus_rs.rs:363-386: the body of the loop for one message: the responses
\* the handler is called with (none, or one followed by break).
OnMessageAnyId(msg, id) ==
    IF msg.type = "Signal"
    THEN IF msg.member = "ActionInvoked"
         THEN IF msg.sig = "us" THEN <<Custom(msg.action)>> ELSE <<>>
         ELSE IF msg.member = "NotificationClosed"
         THEN IF msg.sig = "uu" THEN <<Closed(CloseReasonFrom(msg.reason))>> ELSE <<>>
         ELSE <<>>
    ELSE <<>>

OnMessageActionOnly(msg, id) ==
    IF msg.type = "Signal" /\ msg.member = "ActionInvoked"
          /\ msg.sig = "us" /\ msg.nid = id
    THEN <<Custom(msg.action)>> ELSE <<>>

OnMessage(msg, id) ==
    IF msg.type = "Signal"
    THEN IF msg.member = "ActionInvoked"
         THEN IF msg.sig = "us" /\ msg.nid = id
              THEN <<Custom(msg.action)>> ELSE <<>>
         ELSE IF msg.member = "NotificationClosed"
         THEN IF msg.sig = "uu" /\ msg.nid = id
              THEN <<Closed(CloseReasonFrom(msg.reason))>> ELSE <<>>
         ELSE <<>>
    ELSE <<>>

InitListen ==
    /\ APP_ID = APP_ID_INIT /\ appId0 = APP_ID /\ allocs = <<>>
    /\ InitPortalIdle /\ InitHandleIdle /\ InitExtraIdle
    /\ lpc = "Subscribed"
    /\ target \in Targets
    /\ stream \in Streams
    /\ ending \in {"end", "err", "open"}
    /\ pos = 0
    /\ calls = <<>>

\* zbus_rs.rs:342-360: the two match rules are registered; every step that
\* fails is unwrapped and panics.
add_match_rules(ok) ==
    /\ lpc = "Subscribed"
    /\ lpc' = IF ok THEN "Listening" ELSE "Panicked"
    /\ UNCHANGED <<counterVars, portalVars, handleVars, extraVars, target, stream, ending,
                   pos, calls>>

\* A body that does not deserialize to the tuple its arm expects.
Undecodable(msg) ==
    /\ msg.type = "Signal"
    /\ \/ msg.member = "ActionInvoked" /\ msg.sig # "us"
       \/ msg.member = "NotificationClosed" /\ msg.sig # "uu"

\* The loop as it would be with deserialize().unwrap() in the arms.
next_message_unwrap ==
    /\ lpc = "Listening"
    /\ pos < Len(stream)
    /\ pos' = pos + 1
    /\ calls' = calls \o OnMessage(stream[pos + 1], target)
    /\ lpc' = IF Undecodable(stream[pos + 1]) THEN "Panicked"
              ELSE IF OnMessage(stream[pos + 1], target) # <<>> THEN "Done"
              ELSE "Listening"
    /\ UNCHANGED <<counterVars, portalVars, handleVars, extraVars, target, stream, ending>>

\* zbus_rs.rs:362-387: try_next gives Ok(Some(msg)).
next_message ==
    /\ lpc = "Listening"
    /\ pos < Len(stream)
    /\ pos' = pos + 1
    /\ calls' = calls \o OnMessage(stream[pos + 1], target)
    /\ lpc' = IF OnMessage(stream[pos + 1], target) # <<>> THEN "Done"
              ELSE "Listening"
    /\ UNCHANGED <<counterVars, portalVars, handleVars, extraVars, target, stream, ending>>

\* zbus_rs.rs:362: try_next gives Ok(None) or Err: the while-let ends.
stream_ends_notified ==
    /\ lpc = "Listening"
    /\ pos = Len(stream)
    /\ ending \in {"end", "err"}
    /\ calls' = Append(calls, Closed(CloseReasonFrom(0)))
    /\ lpc' = "Done"
    /\ UNCHANGED <<counterVars, portalVars, handleVars, extraVars, target, stream, ending,
                   pos>>

stream_ends ==
    /\ lpc = "Listening"
    /\ pos = Len(stream)
    /\ ending \in {"end", "err"}
    /\ lpc' = "Done"
    /\ UNCHANGED <<counterVars, portalVars, handleVars, extraVars, target, stream, ending,
                   pos, calls>>

NextListen ==
    \/ \E ok \in BOOLEAN : add_match_rules(ok)
    \/ next_message
    \/ stream_ends

SpecListen == InitListen /\ [][NextListen]_vars

\* The loop is polled whenever the stream has something to give.
SpecListenFair == SpecListen /\ WF_vars(next_message \/ stream_ends)

\* The stream of the correlation example: ActionInvoked for 7,
\* NotificationClosed for 9, ActionInvoked for 9, and whatever follows.
ExampleStream ==
    /\ target = 9
    /\ Len(stream) >= 3
    /\ stream[1] = Message("Signal", "ActionInvoked", "us", 7, "default", 0)
    /\ stream[2] = Message("Signal", "NotificationClosed", "uu", 9, "", 2)
    /\ stream[3] = Message("Signal", "ActionInvoked", "us", 9, "reply", 0)

\* C8 as stated: on the example stream the handler is called once, with the
\* Custom response of the third message, and nothing after it is consumed.
C8_ThirdMessageWins ==
    (ExampleStream /\ lpc = "Done") =>
        (calls = <<Custom("reply")>> /\ pos = 3)

\* C8 as amended: on the example stream the handler is called once, with the
\* Closed response of the second message (NotificationClosed for the target),
\* and the listener is Done without consuming the third message.
C8_SecondMessageWins ==
    (ExampleStream /\ lpc = "Done") =>
        (calls = <<Closed([reason |-> "Dismissed", code |-> 0])>> /\ pos = 2)

C8_Witness == ExampleStream /\ lpc = "Done" /\ Len(calls) = 1 /\ Len(stream) > 2

\* a signal ActionInvoked or NotificationClosed that decodes and carries id
Matching(m, id) ==
    /\ m.type = "Signal"
    /\ \/ m.member = "ActionInvoked" /\ m.sig = "us"
       \/ m.member = "NotificationClosed" /\ m.sig = "uu"
    /\ m.nid = id

MatchIndices == {i \in 1 .. Len(stream) : Matching(stream[i], target)}

ResponseTo(m) ==
    IF m.member = "ActionInvoked"
    THEN [kind |-> "Custom", action |-> m.action, reason |-> NoReason]
    ELSE [kind |-> "Closed", action |-> "",
          reason |-> IF m.reason = 1 THEN [reason |-> "Expired", code |-> 0]
                     ELSE IF m.reason = 2 THEN [reason |-> "Dismissed", code |-> 0]
                     ELSE IF m.reason = 3 THEN [reason |-> "CloseAction", code |-> 0]
                     ELSE [reason |-> "Other", code |-> m.reason]]

\* C9: the handler is called at most once, and only with the response to the
\* first ActionInvoked or NotificationClosed signal of the stream that carries
\* the target; no other message calls it; once it is called the listener is
\* Done and has consumed nothing after that message.
C9_FirstMatchOnly ==
    /\ Len(calls) <= 1
    /\ calls # <<>> =>
          /\ MatchIndices # {}
          /\ pos = MinOf(MatchIndices)
          /\ calls[1] = ResponseTo(stream[pos])
          /\ lpc = "Done"
    /\ (\A i \in 1 .. pos : ~Matching(stream[i], target)) => calls = <<>>

C9_Witness ==
    /\ lpc = "Done"
    /\ Len(calls) = 1
    /\ pos = 2
    /\ Len(stream) = 3
    /\ stream[1].member = "ActionInvoked" /\ stream[1].nid = 7
    /\ Matching(stream[3], target)

\* C10: when the stream ends, or the connection closes, with no matching
\* message in it, the listener reaches Done and the handler is never called.
C10_EndsSilently ==
    (lpc = "Listening" /\ ending \in {"end", "err"} /\ MatchIndices = {})
        ~> (lpc = "Done" /\ calls = <<>> /\ pos = Len(stream))

C10_Witness ==
    /\ lpc = "Done"
    /\ ending = "err"
    /\ MatchIndices = {}
    /\ pos = Len(stream)
    /\ Len(stream) >= 2
    /\ calls = <<>>
\* After an undecodable signal was consumed, the first matching signal, once
\* consumed as well, is the one the handler was called with.
AnsweredBehind ==
    \A i, j \in 1 .. pos :
        (i < j /\ Undecodable(stream[i]) /\ Matching(stream[j], target)
           /\ \A k \in 1 .. (j - 1) : ~Matching(stream[k], target))
        => (lpc = "Done" /\ calls = <<ResponseTo(stream[j])>>)

\* ---------------------------------------------------------------- SpecBus
\* NotificationBus::custom (bus.rs:48-69, zbus_rs.rs:34-53) as a function of
\* its argument; strings are sequences of one-character strings.
NAMESPACE ==
    <<"/", "d", "e", "/", "h", "o", "o", "d", "i", "e", "/",
      "N", "o", "t", "i", "f", "i", "c", "a", "t", "i", "o", "n">>

\* bus.rs:3-9
skip_first_slash(str) ==
    IF str # <<>> /\ Head(str) = "/" THEN Tail(str) ELSE str

\* Path::is_absolute on Unix: the path has a root.
is_absolute(path) == path # <<>> /\ Head(path) = "/"

\* PathBuf::join (bus.rs:51-52): an absolute argument replaces the base;
\* otherwise a separator is added unless the base ends in one, then the
\* argument is appended as it is.
join(base, path) ==
    IF is_absolute(path) THEN path
    ELSE IF base # <<>> /\ base[Len(base)] # "/" THEN base \o <<"/">> \o path
    ELSE base \o path

\* str::replace of one character by another (bus.rs:55)
replace(str, from, to) ==
    [i \in 1 .. Len(str) |-> IF str[i] = from THEN to ELSE str[i]]

\* bus.rs:48-57; to_str is Some for every path built from a &str.
namespaced_custom(path) ==
    replace(skip_first_slash(join(NAMESPACE, path)), "/", ".")

Letters ==
    {"a", "b", "c", "d", "e", "f", "h", "i", "n", "o", "s", "t", "u", "N"}

Digits == {"1"}

\* WellKnownName::try_from (bus.rs:66-67): two or more elements separated by
\* ".", none empty, none starting with a digit, over letters, digits, "_"
\* and "-". The 255-character limit is beyond the paths drawn here.
is_well_known_name(str) ==
    /\ \E i \in 1 .. Len(str) : str[i] = "."
    /\ \A i \in 1 .. Len(str) : str[i] \in Letters \cup Digits \cup {".", "_", "-"}
    /\ \A i \in 1 .. Len(str) :
          (i = 1 \/ str[i - 1] = ".") => str[i] \notin Digits \cup {"."}
    /\ str[Len(str)] # "."

\* bus.rs:65-69
custom(path) ==
    IF is_well_known_name(namespaced_custom(path))
    THEN SomeName(namespaced_custom(path))
    ELSE NoName

PathChars == {"/", "a", "1", "."}

ExamplePaths ==
    {<<"t", "e", "s", "t", "/", "b", "u", "s">>,
     <<"/", "t", "e", "s", "t", "/", "b", "u", "s">>}

Paths == ExamplePaths \cup UNION {[1 .. n -> PathChars] : n \in 0 .. MaxPath}

InitBus ==
    /\ APP_ID = APP_ID_INIT /\ appId0 = APP_ID /\ allocs = <<>>
    /\ InitPortalIdle /\ InitHandleIdle /\ InitListenIdle /\ InitDictIdle
    /\ InitWaitIdle
    /\ bpc = "call"
    /\ custom_path \in Paths
    /\ bus_name = NoName

call_custom ==
    /\ bpc = "call"
    /\ bus_name' = custom(custom_path)
    /\ bpc' = "returned"
    /\ UNCHANGED <<counterVars, portalVars, handleVars, listenVars, dictVars,
                   waitVars, custom_path>>

NextBus == call_custom

SpecBus == InitBus /\ [][NextBus]_vars

\* --------------------------------------------------------------- SpecDict
\* zbus_rs.rs:176-200: the "priority" and "icon" entries of the portal
\* dictionary, as functions of the notification and of what fs::read gives.
Urgency(level) == [kind |-> "Urgency", arg |-> level]

ImagePath(path) == [kind |-> "ImagePath", arg |-> path]

Category(c) == [kind |-> "Category", arg |-> c]

Urgencies == {"Low", "Normal", "Critical"}

ImageFiles == {"a.png", "b.png"}

Hints ==
    {Urgency(u) : u \in Urgencies} \cup {ImagePath(p) : p \in ImageFiles}
      \cup {Category("email")}

\* What get_hints() can yield: distinct hints in some order.
HintLists ==
    UNION {{h \in [1 .. n -> Hints] :
              \A i, j \in 1 .. n : i # j => h[i] # h[j]} : n \in 0 .. MaxHints}

IconNames == {"", "dialog-information"}

\* Iterator::find with matches!(hint, Hint::<kind>(_)): the first hint of
\* that kind in iteration order, if there is one.
find(hints, kind) ==
    IF \E i \in 1 .. Len(hints) : hints[i].kind = kind
    THEN [some |-> TRUE,
          val |-> hints[CHOOSE i \in 1 .. Len(hints) :
                          /\ hints[i].kind = kind
                          /\ \A j \in 1 .. (i - 1) : hints[j].kind # kind]]
    ELSE [some |-> FALSE, val |-> Category("")]

\* The priority as it would be with next() in place of find(): only the
\* first hint is looked at.
priority_of_first(hints) ==
    IF hints # <<>> /\ hints[1].kind = "Urgency"
    THEN (IF hints[1].arg = "Low" THEN "low"
          ELSE IF hints[1].arg = "Normal" THEN "normal" ELSE "urgent")
    ELSE "normal"

\* zbus_rs.rs:176-190
priority(hints) ==
    IF find(hints, "Urgency").some
    THEN (IF find(hints, "Urgency").val.arg = "Low" THEN "low"
          ELSE IF find(hints, "Urgency").val.arg = "Normal" THEN "normal"
          ELSE "urgent")
    ELSE "normal"

Themed(name) == [form |-> "themed", name |-> name, data |-> ""]

\* the content of the file at `path`
Bytes(path) == [form |-> "bytes", name |-> "", data |-> path]

\* The icon as it would be without the icon.is_empty() test.
icon_variant_hint_first(n, readable) ==
    IF find(n.hints, "ImagePath").some
         /\ find(n.hints, "ImagePath").val.arg \in readable
    THEN Bytes(find(n.hints, "ImagePath").val.arg)
    ELSE Themed(n.icon)

\* zbus_rs.rs:192-199; fs::read(path) is Ok exactly for the readable paths.
icon_variant(n, readable) ==
    IF n.icon = "" /\ find(n.hints, "ImagePath").some
         /\ find(n.hints, "ImagePath").val.arg \in readable
    THEN Bytes(find(n.hints, "ImagePath").val.arg)
    ELSE Themed(n.icon)

InitDict ==
    /\ APP_ID = APP_ID_INIT /\ appId0 = APP_ID /\ allocs = <<>>
    /\ InitPortalIdle /\ InitHandleIdle /\ InitListenIdle /\ InitBusIdle
    /\ InitWaitIdle
    /\ epc = "enter"
    /\ notification \in [icon : IconNames, hints : HintLists]
    /\ files \in SUBSET ImageFiles
    /\ dict = NoDict

\* zbus_rs.rs:168-200: the dictionary is complete and the function is at
\* call_method; nothing on the way returns early.
build_dict ==
    /\ epc = "enter"
    /\ dict' = [priority |-> priority(notification.hints),
                icon |-> icon_variant(notification, files)]
    /\ epc' = "call"
    /\ UNCHANGED <<counterVars, portalVars, handleVars, listenVars, busVars,
                   waitVars, notification, files>>

NextDict == build_dict

SpecDict == InitDict /\ [][NextDict]_vars

\* --------------------------------------------------------------- SpecWait
\* zbus_rs.rs:88-90 with 337-388: the send has returned a handle; the server
\* may emit signals from then on, and wait_for_action registers its two match
\* rules and runs the loop. The bus hands a broadcast signal to a connection
\* only while that connection has a rule matching it, and a message reaches
\* the loop only through the MessageStream that exists when it comes in.
ServerSignals ==
    {Message("Signal", "ActionInvoked", "us", n, "default", 0) : n \in {7, 9}}
      \cup {Message("Signal", "NotificationClosed", "uu", n, "", 2) : n \in {7, 9}}

InitWait ==
    /\ APP_ID = APP_ID_INIT /\ appId0 = APP_ID /\ allocs = <<>>
    /\ InitPortalIdle /\ InitHandleIdle /\ InitListenIdle
    /\ InitBusIdle /\ InitDictIdle
    /\ wpc = "sent"
    /\ wid \in Targets
    /\ rules = {}
    /\ queue = <<>>
    /\ cur = NoMessage
    /\ emitted = <<>>
    /\ received = <<>>
    /\ examined = <<>>
    /\ wcalls = <<>>

\* The server emits a signal. It is routed to the connection when a rule
\* matches; there it is queued in the loop's stream if the loop has one.
emit_signal(msg) ==
    /\ wpc \in {"sent", "rule1", "await", "body"}
    /\ Len(emitted) < MaxEmit
    /\ emitted' = Append(emitted, msg)
    /\ IF msg.member \in rules /\ wpc \in {"await", "body"}
       THEN /\ queue' = Append(queue, msg)
            /\ received' = Append(received, msg)
       ELSE UNCHANGED <<queue, received>>
    /\ UNCHANGED <<counterVars, portalVars, handleVars, listenVars, busVars,
                   dictVars, wpc, wid, rules, cur, examined, wcalls>>

\* zbus_rs.rs:342-351: the ActionInvoked rule is registered.
add_action_signal_rule ==
    /\ wpc = "sent"
    /\ rules' = rules \cup {"ActionInvoked"}
    /\ wpc' = "rule1"
    /\ UNCHANGED <<counterVars, portalVars, handleVars, listenVars, busVars,
                   dictVars, wid, queue, cur, emitted, received, examined,
                   wcalls>>

\* zbus_rs.rs:353-362: the NotificationClosed rule is registered and the
\* first MessageStream is made.
add_close_signal_rule ==
    /\ wpc = "rule1"
    /\ rules' = rules \cup {"NotificationClosed"}
    /\ queue' = <<>>
    /\ wpc' = "await"
    /\ UNCHANGED <<counterVars, portalVars, handleVars, listenVars, busVars,
                   dictVars, wid, cur, emitted, received, examined, wcalls>>

\* zbus_rs.rs:362: try_next yields the oldest message queued in the stream.
try_next ==
    /\ wpc = "await"
    /\ queue # <<>>
    /\ cur' = Head(queue)
    /\ queue' = Tail(queue)
    /\ examined' = Append(examined, Head(queue))
    /\ wpc' = "body"
    /\ UNCHANGED <<counterVars, portalVars, handleVars, listenVars, busVars,
                   dictVars, wid, rules, emitted, received, wcalls>>

\* zbus_rs.rs:363-386: the body handles the message; at its end the stream
\* of this iteration is dropped with what is still queued in it, and the
\* next iteration makes a new one.
loop_body ==
    /\ wpc = "body"
    /\ wcalls' = wcalls \o OnMessage(cur, wid)
    /\ wpc' = IF OnMessage(cur, wid) # <<>> THEN "done" ELSE "await"
    /\ cur' = NoMessage
    /\ queue' = <<>>
    /\ UNCHANGED <<counterVars, portalVars, handleVars, listenVars, busVars,
                   dictVars, wid, rules, emitted, received, examined>>

NextWait ==
    \/ \E msg \in ServerSignals : emit_signal(msg)
    \/ add_action_signal_rule
    \/ add_close_signal_rule
    \/ try_next
    \/ loop_body

SpecWait == InitWait /\ [][NextWait]_vars

\* The listener's steps are taken when they can be; the server is free.
SpecWaitFair ==
    SpecWait /\ WF_vars(add_action_signal_rule \/ add_close_signal_rule
                          \/ try_next \/ loop_body)

\* C15: custom("test/bus") and custom("/test/bus") both give the name
\* "de.hoodie.Notification.test.bus".
C15_SlashInsensitive ==
    (bpc = "returned" /\ custom_path \in ExamplePaths)
    => bus_name = SomeName(<<"d", "e", ".", "h", "o", "o", "d", "i", "e", ".",
                             "N", "o", "t", "i", "f", "i", "c", "a", "t", "i",
                             "o", "n", ".", "t", "e", "s", "t", ".",
                             "b", "u", "s">>)

\* C11: a signal whose member matches but whose body does not decode never
\* ends the loop: the step that consumes it leaves the listener Listening and
\* the handler uncalled, and a matching signal behind it is still answered
\* once it has been consumed.
C11_MalformedSkipped ==
    /\ []AnsweredBehind
    /\ [][(lpc = "Listening" /\ pos < Len(stream) /\ pos' = pos + 1
             /\ Undecodable(stream[pos + 1]))
          => (lpc' = "Listening" /\ calls' = calls)]_vars

C11_Witness ==
    /\ lpc = "Done"
    /\ pos = 2
    /\ Undecodable(stream[1])
    /\ stream[1].nid = target
    /\ Matching(stream[2], target)
    /\ calls = <<ResponseTo(stream[2])>>
\* C12: a call of the bus-forced send puts exactly one request on the
\* connection, never a probe: AddNotification to the portal exactly when the
\* bus it was given is the portal bus, Notify to the given bus otherwise,
\* whatever the portal's version property reads at that moment.
C12_OneCallByBus ==
    [][(hpc = "enter" /\ hpc' # "enter")
       => /\ Len(wire') = Len(wire) + 1
          /\ SubSeq(wire', 1, Len(wire)) = wire
          /\ wire'[Len(wire')].dest = bus
          /\ wire'[Len(wire')].method =
                (IF bus = NOTIFICATION_PORTAL_BUS THEN "AddNotification"
                 ELSE "Notify")]_vars

\* A forced send to the custom bus went out as one Notify while the portal
\* was available.
C12_Witness ==
    /\ op = "connect_at_bus"
    /\ Len(wire) = 1
    /\ wire[1].method = "Notify"
    /\ wire[1].dest = CUSTOM_BUS
    /\ portalProp = Ok(1)
\* The decimal form of the identifiers that reach the portal branch here.
DecimalOf(id) ==
    IF id = -1 THEN <<"4", "2", "9", "4", "9", "6", "7", "2", "9", "5">>
    ELSE IF id = -2 THEN <<"4", "2", "9", "4", "9", "6", "7", "2", "9", "4">>
    ELSE IF id = 5 THEN <<"5">>
    ELSE IF id = 6 THEN <<"6">>
    ELSE IF id \in 0 .. 9 THEN <<DigitChars[id + 1]>>
    ELSE <<>>

\* C13: a portal-branch send given a nonzero identifier keys AddNotification
\* with that identifier's decimal string, returns that identifier when the
\* call succeeds, and leaves the counter alone; the counter moves only in a
\* portal-branch send given 0, and then by one.
C13_SuppliedIdKept ==
    [][/\ (hpc = "enter" /\ hpc' # "enter" /\ bus = NOTIFICATION_PORTAL_BUS
            /\ argId # 0)
          => /\ APP_ID' = APP_ID
             /\ wire'[Len(wire')].key = DecimalOf(argId)
             /\ wire'[Len(wire')].ok
                  => (ret' = "Ok" /\ handle'.id = argId)
       /\ (APP_ID' # APP_ID)
          => /\ hpc = "enter" /\ bus = NOTIFICATION_PORTAL_BUS /\ argId = 0
             /\ APP_ID' = WrappingAdd1(APP_ID)]_vars

\* An update of a handle whose identifier is above i32::MAX went to the
\* portal under its ten-digit key.
C13_Witness ==
    /\ Len(wire) >= 2
    /\ LastRequest.method = "AddNotification"
    /\ LastRequest.ok
    /\ LastRequest.key = <<"4", "2", "9", "4", "9", "6", "7", "2", "9", "4">>
    /\ handle.id = -2
    /\ allocs = <<-2>>
    /\ op = "update"
\* C14: an update whose request fails returns the error and leaves the
\* handle as it was: same identifier, same snapshot, still usable.
C14_FailedUpdateKeeps ==
    [][(op = "update" /\ hpc = "enter" /\ hpc' # "enter"
          /\ ~wire'[Len(wire')].ok)
       => /\ ret' = "Err"
          /\ handle' = handle
          /\ notif' = notif
          /\ hpc' = "live"]_vars

\* A handle with a nonzero identifier went through a failed update.
C14_Witness ==
    /\ op = "update"
    /\ hpc = "live"
    /\ ret = "Err"
    /\ ~LastRequest.ok
    /\ IsSend(LastRequest)
    /\ handle.id = 6
    /\ handle.bus = CUSTOM_BUS
UrgenciesOf(hints) ==
    {hints[i].arg : i \in {j \in 1 .. Len(hints) : hints[j].kind = "Urgency"}}

PriorityName(u) ==
    CASE u = "Low" -> "low"
      [] u = "Normal" -> "normal"
      [] u = "Critical" -> "urgent"

\* C16: the priority entry is defined for every hint list: "normal" without
\* an urgency hint, otherwise the name of an urgency hint the notification
\* carries (low, normal, urgent for Low, Normal, Critical); hints of other
\* kinds, wherever they stand, do not enter into it.
C16_PriorityTotal ==
    (epc = "call")
    => /\ UrgenciesOf(notification.hints) = {} => dict.priority = "normal"
       /\ UrgenciesOf(notification.hints) # {}
            => dict.priority
                 \in {PriorityName(u) : u \in UrgenciesOf(notification.hints)}

\* A Critical hint behind two hints of other kinds gave "urgent".
C16_Witness ==
    /\ epc = "call"
    /\ notification.hints
         = <<Category("email"), ImagePath("a.png"), Urgency("Critical")>>
    /\ dict.priority = "urgent"

ImageIndices(hints) == {i \in 1 .. Len(hints) : hints[i].kind = "ImagePath"}

\* the first image-path hint is there and its file can be read
FirstImageReadable ==
    /\ ImageIndices(notification.hints) # {}
    /\ notification.hints[MinOf(ImageIndices(notification.hints))].arg \in files

\* C17: building the icon entry never ends the send. A non-empty icon name
\* always gives the themed form with that name; with an empty icon name the
\* entry is the bytes of the hinted file when that file was read, and the
\* themed form with the empty name when there is no image-path hint or its
\* file cannot be read.
C17_IconFallback ==
    /\ [](epc = "call"
           => /\ notification.icon # ""
                   => dict.icon = [form |-> "themed",
                                   name |-> notification.icon, data |-> ""]
              /\ (notification.icon = "" /\ ~FirstImageReadable)
                   => dict.icon = [form |-> "themed", name |-> "", data |-> ""]
              /\ dict.icon.form = "bytes"
                   => /\ notification.icon = ""
                      /\ FirstImageReadable
                      /\ dict.icon.data
                           = notification.hints[
                               MinOf(ImageIndices(notification.hints))].arg)
    /\ [][epc = "enter" => epc' = "call"]_vars

\* An empty icon name with an image-path hint whose file cannot be read.
C17_Witness ==
    /\ epc = "call"
    /\ notification.icon = ""
    /\ notification.hints = <<Urgency("Low"), ImagePath("b.png")>>
    /\ files = {"a.png"}
    /\ dict.icon = [form |-> "themed", name |-> "", data |-> ""]
\* C18: a signal for the handle's identifier that the server emits after the
\* send has returned, whether before or after wait_for_action registered its
\* match rules, leads to the handler being called and the wait returning.
C18_NoSignalLost ==
    (\E i \in 1 .. Len(emitted) : Matching(emitted[i], wid))
      ~> (wpc = "done" /\ wcalls # <<>>)

\* C19: once Listening, the loop examines every message the connection is
\* given, once and in order: what was received is what was examined followed
\* by what is still waiting, so nothing received is skipped.
C19_ExaminedOnce ==
    (wpc \in {"await", "body", "done"}) => received = examined \o queue
\* C20: an identifier the counter allocated to a send is never the
\* identifier of a live handle that another caller holds.
C20_AllocatedIdFree ==
    \A c, d \in Callers :
        (c # d /\ cret[c].ok /\ cret[d].ok /\ cpc[d] = "idle" /\ carg[d] = 0)
        => cret[d].v # cret[c].v
====
